---- MODULE Spec2Model ----
(***************************************************************************)
(* The simulation core of the two-paddle ball game of src/src/main.rs:     *)
(* fixed-point geometry (Circle / Rect / touches), Ball::update,           *)
(* Paddle::move_by / _update, and the Playing / Over loop of main.         *)
(*                                                                         *)
(* Every coordinate is a FixedNum<8>: the model keeps its raw i32 value,   *)
(* one unit being 1/256 of a pixel, and computes with it as the fixnum     *)
(* library does (truncating multiply, truncating integer divide, the       *)
(* digit-by-digit square root that is exact only to 1/16).                 *)
(***************************************************************************)
EXTENDS Integers, Sequences, FiniteSets, TLC

VARIABLES
    game,       \* "Playing" | "Over": the live variant of enum Game
    ball,       \* gp.ball: [pos, velocity], or Dropped while Over
    paddle_a,   \* gp.paddle_a (Paddle<P1>): [pos, health], or Dropped
    paddle_b,   \* gp.paddle_b (Paddle<P2>): [pos, health], or Dropped
    pressed,    \* the buttons sampled by the last controller.update()
    pc,         \* position of main inside the current loop iteration
    played,     \* sounds handed to the mixer since the last mixer.frame()
    build,      \* "dev" (overflow checks on) | "release" (wrapping)
    panicked,   \* TRUE once an arithmetic overflow check has aborted main
    script,     \* the recorded button presses still to be replayed
    ticks,      \* Playing iterations polled freely, after the recording
    t_circle,   \* argument of a stand-alone Circle::touches call
    t_rect,     \* argument of a stand-alone Circle::touches call
    t_result    \* <<>> before the call, <<its result>> after

vars == <<game, ball, paddle_a, paddle_b, pressed, pc, played, build,
          panicked, script, ticks, t_circle, t_rect, t_result>>

----------------------------------------------------------------------------
(* Bounds of the model *)

\* Playing iterations polled with free input once the recording has ended
MaxTicks == 3
\* iterations of the paddle updates taken on their own
MaxUpdates == 2

----------------------------------------------------------------------------
(* Program constants *)

\* FixedNum<8>: 8 fractional bits
FRAC == 256
\* agb::display::WIDTH
WIDTH == 240
\* agb::display::HEIGHT
HEIGHT == 160
\* Paddle::health is a u16
U16 == 65536
MaxI32 == 2147483647
MinI32 == (-MaxI32) - 1

\* num!(n) for an integer literal n
num(n) == n * FRAC
\* num!(0.5)
Half == 128

Max(a, b) == IF a >= b THEN a ELSE b
Min(a, b) == IF a <= b THEN a ELSE b
Abs(a) == IF a < 0 THEN -a ELSE a

vec2(x, y) == [x |-> x, y |-> y]
VAdd(a, b) == [x |-> a.x + b.x, y |-> a.y + b.y]

\* i32 addition that wraps (release build); never leaves the i32 range
add_i32(a, b) ==
    IF b > 0 /\ a > MaxI32 - b THEN (a + MinI32) + (b + MinI32)
    ELSE IF b < 0 /\ a < MinI32 - b THEN (a - MinI32) + (b - MinI32)
    ELSE a + b

\* does a + b overflow an i32 (dev build: the addition panics)
overflows_i32(a, b) ==
    \/ b > 0 /\ a > MaxI32 - b
    \/ b < 0 /\ a < MinI32 - b

\* FixedNum * FixedNum: (a * b) >> 8 on the 64-bit product, rounding down;
\* split so that no intermediate leaves the checker's integer range
fx_mul(a, b) == ((a \div FRAC) * b) + (((a % FRAC) * b) \div FRAC)

\* FixedNum / i32: raw integer division, truncating towards zero
fx_div_int(a, n) == IF a >= 0 THEN a \div n ELSE -((-a) \div n)

\* FixedNum::sqrt: `while d > self.0 { d >>= 2 }`
RECURSIVE sqrt_start(_, _)
sqrt_start(v, d) == IF d > v THEN sqrt_start(v, d \div 4) ELSE d

\* FixedNum::sqrt: the digit-by-digit integer square root of the raw value
RECURSIVE sqrt_loop(_, _, _)
sqrt_loop(x, c, d) ==
    IF d = 0 THEN c
    ELSE IF x >= c + d THEN sqrt_loop(x - (c + d), (c \div 2) + d, d \div 4)
    ELSE sqrt_loop(x, c \div 2, d \div 4)

\* FixedNum<8>::sqrt: isqrt(raw) << 4, so the result is a multiple of 1/16
fx_sqrt(v) == sqrt_loop(v, 0, sqrt_start(v, 1073741824)) * 16

----------------------------------------------------------------------------
(* Geometry: Rect, Circle, touches *)

Rect_new(position, size) == [position |-> position, size |-> size]
top_left(r) == r.position
bottom_right(r) == VAdd(r.position, r.size)
bottom_left(r) == vec2(r.position.x, r.position.y + r.size.y)
Rect_centre(r) ==
    vec2(r.position.x + fx_div_int(r.size.x, 2),
         r.position.y + fx_div_int(r.size.y, 2))

Circle_new(pos, radius) == [pos |-> pos, radius |-> radius]
centre(c) == vec2(c.pos.x + c.radius, c.pos.y + c.radius)

\* the x of the rect point closest to the circle's centre
test_x(c, rect) ==
    IF centre(c).x < top_left(rect).x THEN top_left(rect).x
    ELSE IF centre(c).x > bottom_right(rect).x THEN bottom_right(rect).x
    ELSE centre(c).x

\* the y of the rect point closest to the circle's centre
test_y(c, rect) ==
    IF centre(c).y < top_left(rect).y THEN top_left(rect).y
    ELSE IF centre(c).y > bottom_left(rect).y THEN bottom_left(rect).y
    ELSE centre(c).y

\* the fixed-point distance `dist` of Circle::touches
touch_dist(c, rect) ==
    LET dist_x == centre(c).x - test_x(c, rect)
        dist_y == test_y(c, rect) - centre(c).y
    IN  fx_sqrt(fx_mul(dist_x, dist_x) + fx_mul(dist_y, dist_y))

\* touches with the comparison made strict
touches_strict(c, rect) == touch_dist(c, rect) < c.radius

touches(c, rect) == touch_dist(c, rect) <= c.radius

----------------------------------------------------------------------------
(* Paddle *)

Paddle_new(start, health) == [pos |-> start, health |-> health]

\* num!(agb::display::HEIGHT - 48)
PaddleMaxY == num(HEIGHT - 48)

\* move_by without the upper clamp
move_by_no_min(p, y) ==
    [p EXCEPT !.pos.y = Max(add_i32(@, y), num(0))]

move_by(p, y) ==
    [p EXCEPT !.pos.y = Min(Max(add_i32(@, y), num(0)), PaddleMaxY)]

collision_rect(p) ==
    Rect_new(VAdd(p.pos, vec2(num(4), num(4))), vec2(num(10), num(40)))

\* the match with (true, true) moving the paddle up
y_change_up_wins(up_pressed, down_pressed) ==
    IF up_pressed THEN num(-2)
    ELSE IF down_pressed THEN num(2)
    ELSE num(0)

y_change(up_pressed, down_pressed) ==
    IF up_pressed /\ ~down_pressed THEN num(-2)
    ELSE IF ~up_pressed /\ down_pressed THEN num(2)
    ELSE num(0)

Paddle_update(p, up_pressed, down_pressed) ==
    move_by(p, y_change(up_pressed, down_pressed))

\* Paddle<P1>::update reads UP / DOWN
Paddle_P1_update(p, bc) == Paddle_update(p, "UP" \in bc, "DOWN" \in bc)
\* Paddle<P2>::update reads A / B
Paddle_P2_update(p, bc) == Paddle_update(p, "A" \in bc, "B" \in bc)

----------------------------------------------------------------------------
(* Ball *)

Ball_new(pos, velocity) == [pos |-> pos, velocity |-> velocity]

\* a reset that serves the ball at half the horizontal speed
Ball_reset_slow == Ball_new(vec2(num(50), num(50)), vec2(num(1), Half))

\* the state Ball::reset leaves
Ball_reset == Ball_new(vec2(num(50), num(50)), vec2(num(2), Half))

\* a miss that awards a health instead of taking one
inc_u16(h) == (h + 1) % U16

\* `health -= 1` on a u16 in a release build
dec_u16(h) == (h + (U16 - 1)) % U16

\* The working state of Ball::update: the ball, both healths, the sounds
\* played so far and whether a `health -= 1` has hit zero.
update_start(b, pa, pb) ==
    [pos |-> b.pos, velocity |-> b.velocity,
     health_a |-> pa.health, health_b |-> pb.health,
     sounds |-> <<>>, underflow |-> FALSE]

\* the left paddle check steering by a sixteenth of the offset
hit_paddle_a_div16(s, ball_mask, pa) ==
    IF touches(ball_mask, collision_rect(pa))
    THEN LET y_difference ==
                 fx_div_int(centre(ball_mask).y
                            - Rect_centre(collision_rect(pa)).y, 16)
         IN  [s EXCEPT !.velocity.x = Abs(@),
                       !.velocity.y = @ + y_difference,
                       !.sounds = Append(@, "BALL_PADDLE_HIT")]
    ELSE s

\* `if ball_mask.touches(paddle_a.collision_rect())`
hit_paddle_a(s, ball_mask, pa) ==
    IF touches(ball_mask, collision_rect(pa))
    THEN LET y_difference ==
                 fx_div_int(centre(ball_mask).y
                            - Rect_centre(collision_rect(pa)).y, 32)
         IN  [s EXCEPT !.velocity.x = Abs(@),
                       !.velocity.y = @ + y_difference,
                       !.sounds = Append(@, "BALL_PADDLE_HIT")]
    ELSE s

\* the right paddle check with the sign of paddle_a's branch
hit_paddle_b_abs(s, ball_mask, pb) ==
    IF touches(ball_mask, collision_rect(pb))
    THEN LET y_difference ==
                 fx_div_int(centre(ball_mask).y
                            - Rect_centre(collision_rect(pb)).y, 32)
         IN  [s EXCEPT !.velocity.x = Abs(@),
                       !.velocity.y = @ - y_difference,
                       !.sounds = Append(@, "BALL_PADDLE_HIT")]
    ELSE s

\* `if ball_mask.touches(paddle_b.collision_rect())`
hit_paddle_b(s, ball_mask, pb) ==
    IF touches(ball_mask, collision_rect(pb))
    THEN LET y_difference ==
                 fx_div_int(centre(ball_mask).y
                            - Rect_centre(collision_rect(pb)).y, 32)
         IN  [s EXCEPT !.velocity.x = -Abs(@),
                       !.velocity.y = @ - y_difference,
                       !.sounds = Append(@, "BALL_PADDLE_HIT")]
    ELSE s

\* the wall test with the paddle's height in place of the ball's
wall_hit_paddle_height(potential_ball_pos) ==
    \/ potential_ball_pos.y <= num(0)
    \/ potential_ball_pos.y >= num(HEIGHT - 48)

\* the top / bottom wall test on the probe position
wall_hit(potential_ball_pos) ==
    \/ potential_ball_pos.y <= num(0)
    \/ potential_ball_pos.y >= num(HEIGHT - 16)

hit_wall(s, potential_ball_pos) ==
    IF wall_hit(potential_ball_pos)
    THEN [s EXCEPT !.velocity.y = @ * (-1),
                   !.sounds = Append(@, "WALL_HIT")]
    ELSE s

\* `if potential_ball_pos.x <= num!(0)`
left_miss(potential_ball_pos) == potential_ball_pos.x <= num(0)
\* a right-hand test that also fires at the left edge
right_miss_either_edge(potential_ball_pos) ==
    potential_ball_pos.x >= num(WIDTH - 16) \/ potential_ball_pos.x <= num(0)

\* `if potential_ball_pos.x >= num!(agb::display::WIDTH - 16)`
right_miss(potential_ball_pos) == potential_ball_pos.x >= num(WIDTH - 16)

\* a left miss that takes the health but leaves the ball where it is
miss_left_no_reset(s, potential_ball_pos) ==
    IF left_miss(potential_ball_pos)
    THEN [s EXCEPT !.health_a = dec_u16(@),
                   !.underflow = @ \/ (s.health_a = 0)]
    ELSE s

miss_left(s, potential_ball_pos) ==
    IF left_miss(potential_ball_pos)
    THEN [s EXCEPT !.health_a = dec_u16(@),
                   !.underflow = @ \/ (s.health_a = 0),
                   !.pos = Ball_reset.pos,
                   !.velocity = Ball_reset.velocity]
    ELSE s

\* a right miss that charges both paddles
miss_right_both(s, potential_ball_pos) ==
    IF right_miss(potential_ball_pos)
    THEN [s EXCEPT !.health_a = dec_u16(@),
                   !.health_b = dec_u16(@),
                   !.underflow = @ \/ (s.health_b = 0),
                   !.pos = Ball_reset.pos,
                   !.velocity = Ball_reset.velocity]
    ELSE s

miss_right(s, potential_ball_pos) ==
    IF right_miss(potential_ball_pos)
    THEN [s EXCEPT !.health_b = dec_u16(@),
                   !.underflow = @ \/ (s.health_b = 0),
                   !.pos = Ball_reset.pos,
                   !.velocity = Ball_reset.velocity]
    ELSE s

\* `self.pos += self.velocity;`
advance(s) == [s EXCEPT !.pos = VAdd(s.pos, s.velocity)]

\* the collision tests made where the ball is, not where it would go
probe_at_pos(b) == b.pos

\* `let potential_ball_pos = self.pos + self.velocity;`
probe(b) == VAdd(b.pos, b.velocity)

\* `Circle::new(potential_ball_pos, num!(8))`
mask(b) == Circle_new(probe(b), num(8))

\* Ball::update with the wall check made before the paddle checks
Ball_update_wall_first(b, pa, pb) ==
    LET s1 == hit_wall(update_start(b, pa, pb), probe(b))
        s2 == hit_paddle_a(s1, mask(b), pa)
        s3 == hit_paddle_b(s2, mask(b), pb)
        s4 == miss_left(s3, probe(b))
        s5 == miss_right(s4, probe(b))
    IN  advance(s5)

\* Ball::update, statement by statement
Ball_update(b, pa, pb) ==
    LET s1 == hit_paddle_a(update_start(b, pa, pb), mask(b), pa)
        s2 == hit_paddle_b(s1, mask(b), pb)
        s3 == hit_wall(s2, probe(b))
        s4 == miss_left(s3, probe(b))
        s5 == miss_right(s4, probe(b))
    IN  advance(s5)

----------------------------------------------------------------------------
(* Game *)

\* the fields of a GamePlay that Game::Over does not carry
Dropped == [dropped |-> TRUE]

new_ball == Ball_new(vec2(num(50), num(50)), vec2(num(2), Half))
new_paddle_a == Paddle_new(vec2(num(8), num(8)), 3)
new_paddle_b == Paddle_new(vec2(num(240 - 16 - 8), num(8)), 3)

Buttons == {"UP", "DOWN", "A", "B", "START"}

\* the button states a freely polled iteration may sample
AllInputs == {{}, {"UP"}, {"DOWN"}, {"A"}, {"B"}, {"UP", "DOWN"}, {"START"}}

(* Recorded input: each entry is <<buttons held, number of iterations>>.    *)
(* A recording is played from Game::new and stops one iteration before     *)
(* the event it is named after, which the free input that follows can then *)
(* let happen or avert.                                                    *)

\* nothing pressed: the first ball passes the right paddle
ScriptRightMiss ==
    <<<<{}, 85>>>>
\* the right paddle is moved down into a ball that is already past it
ScriptTouchThenMissRight ==
    <<<<{}, 65>>, <<{"B"}, 20>>>>
\* the right paddle meets the first ball
ScriptTouchRight ==
    <<<<{"B"}, 53>>, <<{"A"}, 21>>, <<{}, 1>>>>
\* the ball comes back from the right paddle and meets the left one
ScriptTouchLeft ==
    <<<<{"B"}, 74>>, <<{"A"}, 97>>, <<{}, 1>>>>
\* the ball comes back from the right paddle and passes the left one
ScriptLeftMiss ==
    <<<<{}, 45>>, <<{"B"}, 42>>, <<{"B", "UP"}, 87>>, <<{}, 1>>>>
\* the ball meets the left paddle next to the bottom wall
ScriptTouchLeftWall ==
    <<<<{"DOWN"}, 42>>, <<{"B"}, 46>>, <<{}, 26>>, <<{"UP"}, 14>>,
      <<{"A"}, 29>>, <<{"A", "DOWN"}, 17>>, <<{"DOWN"}, 1>>>>
\* the ball meets the right paddle next to the top wall
ScriptTouchRightWall ==
    <<<<{"B"}, 63>>, <<{"A", "UP"}, 1>>, <<{"A", "DOWN"}, 93>>,
      <<{"DOWN"}, 9>>, <<{"B"}, 17>>, <<{"A", "UP"}, 69>>, <<{}, 1>>>>
\* the ball comes off the right paddle and reaches the bottom wall
ScriptWall ==
    <<<<{"B"}, 48>>, <<{}, 48>>>>
\* the left paddle can be moved up into a ball that is already past it
ScriptTouchLeftMiss ==
    <<<<{"B", "DOWN"}, 49>>, <<{"A"}, 87>>, <<{}, 29>>, <<{"A", "UP"}, 9>>,
      <<{"UP"}, 1>>>>
\* healths (1, 1), the ball about to pass the left paddle
ScriptLastLeftMiss ==
    <<<<{"B"}, 55>>, <<{"A", "UP"}, 63>>, <<{"UP"}, 59>>, <<{"B"}, 30>>,
      <<{"UP"}, 100>>, <<{}, 46>>, <<{"A", "UP"}, 86>>,
      <<{"B", "UP"}, 86>>, <<{"A", "UP"}, 51>>, <<{"B", "UP"}, 84>>,
      <<{"A", "UP"}, 38>>, <<{}, 1>>>>
\* healths (1, 1), the ball about to pass the right paddle
ScriptLastRightMiss ==
    <<<<{"B"}, 55>>, <<{"A", "UP"}, 63>>, <<{"UP"}, 59>>, <<{"B"}, 30>>,
      <<{"UP"}, 100>>, <<{}, 46>>, <<{"A", "UP"}, 86>>,
      <<{"B", "UP"}, 86>>, <<{"B"}, 83>>, <<{}, 1>>>>

\* the left paddle, moving down with the ball, is about to steer it
\* downwards a third time, just above the bottom wall
ScriptTouchLeftLow ==
    <<<<{"A", "UP"}, 38>>, <<{"B", "UP"}, 84>>, <<{"A", "DOWN"}, 51>>>>

Scripts ==
    {<<>>, ScriptRightMiss, ScriptTouchThenMissRight, ScriptTouchRight,
     ScriptTouchLeft, ScriptLeftMiss, ScriptTouchLeftWall,
     ScriptTouchRightWall, ScriptWall, ScriptTouchLeftMiss,
     ScriptLastLeftMiss, ScriptLastRightMiss, ScriptTouchLeftLow}

\* the recording that remains after one more iteration of it
script_rest(sc) ==
    IF Head(sc)[2] = 1 THEN Tail(sc)
    ELSE <<<<Head(sc)[1], Head(sc)[2] - 1>>>> \o Tail(sc)

Builds == {"dev", "release"}

TypeOK ==
    /\ game \in {"Playing", "Over"}
    /\ pressed \subseteq Buttons
    /\ pc \in {"poll", "ball", "paddles", "frame", "over"}
    /\ build \in Builds
    /\ panicked \in BOOLEAN
    /\ ticks \in Nat

\* main up to the loop: Game::new() and a controller with nothing pressed
Started ==
    /\ game = "Playing"
    /\ ball = new_ball
    /\ paddle_a = new_paddle_a
    /\ paddle_b = new_paddle_b
    /\ pressed = {}
    /\ pc = "poll"
    /\ played = <<>>
    /\ build \in Builds
    /\ panicked = FALSE
    /\ ticks = 0

\* no stand-alone touches call is in progress
NoTouchCall ==
    /\ t_circle = Dropped
    /\ t_rect = Dropped
    /\ t_result = <<>>

Init == Started /\ script \in Scripts /\ NoTouchCall

touch_vars == <<t_circle, t_rect, t_result>>

\* the arm of `match game` the iteration runs after controller.update()
arm(g) == IF g = "Playing" THEN "ball" ELSE "over"

\* `controller.update();` at the head of either arm, sampling the next
\* recorded button state
Replay ==
    /\ pc = "poll" /\ ~panicked
    /\ script # <<>>
    /\ pressed' = Head(script)[1]
    /\ script' = script_rest(script)
    /\ pc' = arm(game)
    /\ UNCHANGED <<game, ball, paddle_a, paddle_b, played, build, panicked,
                   ticks, touch_vars>>

\* `controller.update();` at the head of either arm, sampling any button
\* state; at most MaxTicks Playing iterations begin this way
Poll ==
    /\ pc = "poll" /\ ~panicked
    /\ script = <<>>
    /\ game = "Playing" => ticks < MaxTicks
    /\ pressed' \in AllInputs
    /\ ticks' = IF game = "Playing" THEN ticks + 1 ELSE ticks
    /\ pc' = arm(game)
    /\ UNCHANGED <<game, ball, paddle_a, paddle_b, played, build, panicked,
                   script, touch_vars>>

\* the left paddle as this iteration's paddle_a.update would leave it
arg_paddle_a_moved == Paddle_P1_update(paddle_a, pressed)
\* the right paddle as this iteration's paddle_b.update would leave it
arg_paddle_b_moved == Paddle_P2_update(paddle_b, pressed)

\* `&mut gp.paddle_a` as Ball::update receives it: not yet moved
arg_paddle_a == paddle_a
\* `&mut gp.paddle_b` as Ball::update receives it: not yet moved
arg_paddle_b == paddle_b

\* `gp.ball.update(&mut gp.paddle_a, &mut gp.paddle_b, &mut mixer);`
BallStep ==
    /\ pc = "ball" /\ ~panicked
    /\ LET r == Ball_update(ball, arg_paddle_a, arg_paddle_b)
       IN  IF r.underflow /\ build = "dev"
           THEN /\ panicked' = TRUE
                /\ UNCHANGED <<ball, paddle_a, paddle_b, played, pc>>
           ELSE /\ ball' = Ball_new(r.pos, r.velocity)
                /\ paddle_a' = [paddle_a EXCEPT !.health = r.health_a]
                /\ paddle_b' = [paddle_b EXCEPT !.health = r.health_b]
                /\ played' = played \o r.sounds
                /\ pc' = "paddles"
                /\ UNCHANGED panicked
    /\ UNCHANGED <<game, pressed, build, script, ticks, touch_vars>>

\* `gp.paddle_a.update(&mut controller); gp.paddle_b.update(&mut controller);`
PaddleStep ==
    /\ pc = "paddles" /\ ~panicked
    /\ paddle_a' = Paddle_P1_update(paddle_a, pressed)
    /\ paddle_b' = Paddle_P2_update(paddle_b, pressed)
    /\ pc' = "frame"
    /\ UNCHANGED <<game, ball, pressed, played, build, panicked, script,
                   ticks, touch_vars>>

\* the health check with `&&` in place of `||`
game_over_both(pa, pb) == pa.health = 0 /\ pb.health = 0

\* the health check that looks at paddle_a only
game_over_a_only(pa, pb) == pa.health = 0

\* `if gp.paddle_a.health == 0 || gp.paddle_b.health == 0`
game_over(pa, pb) == pa.health = 0 \/ pb.health = 0

\* the rest of the Playing arm: show, mixer.frame(), commit, health check
FrameStep ==
    /\ pc = "frame" /\ ~panicked
    /\ played' = <<>>
    /\ IF game_over(paddle_a, paddle_b)
       THEN /\ game' = "Over"
            /\ ball' = Dropped
            /\ paddle_a' = Dropped
            /\ paddle_b' = Dropped
       ELSE UNCHANGED <<game, ball, paddle_a, paddle_b>>
    /\ pc' = "poll"
    /\ UNCHANGED <<pressed, build, panicked, script, ticks, touch_vars>>

\* the restart test reading the A button
restart_on_a(bc) == "A" \in bc

\* `controller.is_pressed(Button::START)`
restart(bc) == "START" \in bc

\* the Over arm after controller.update(): show, mixer.frame(), commit,
\* then `if controller.is_pressed(Button::START) { Game::new() }`
OverStep ==
    /\ pc = "over" /\ ~panicked
    /\ played' = <<>>
    /\ IF restart(pressed)
       THEN /\ game' = "Playing"
            /\ ball' = new_ball
            /\ paddle_a' = new_paddle_a
            /\ paddle_b' = new_paddle_b
       ELSE UNCHANGED <<game, ball, paddle_a, paddle_b>>
    /\ pc' = "poll"
    /\ UNCHANGED <<pressed, build, panicked, script, ticks, touch_vars>>

Next == Replay \/ Poll \/ BallStep \/ PaddleStep \/ FrameStep \/ OverStep

Spec == Init /\ [][Next]_vars

\* main never stops inside its loop: the next input is always sampled, and
\* every iteration that has begun runs to its end unless it panics
SpecFair ==
    /\ Spec
    /\ WF_vars(Replay) /\ WF_vars(Poll)
    /\ []<>(pc = "poll" \/ panicked)

----------------------------------------------------------------------------
(* Paddle::move_by on its own, over arbitrary FixedNum arguments *)

\* the raw values handed to move_by: the game's own -2, 0, 2, odd and
\* large steps, and the two ends of the i32 range
Deltas ==
    {MinI32, num(-1000), num(-2), num(0), num(2), num(7), num(1000), MaxI32}

InitPaddle == Started /\ script = <<>> /\ NoTouchCall

\* `self.pos.y + y` overflows: a dev build panics, a release build wraps
MoveByA ==
    /\ ~panicked
    /\ \E y \in Deltas :
           IF overflows_i32(paddle_a.pos.y, y) /\ build = "dev"
           THEN panicked' = TRUE /\ UNCHANGED paddle_a
           ELSE paddle_a' = move_by(paddle_a, y) /\ UNCHANGED panicked
    /\ UNCHANGED <<game, ball, paddle_b, pressed, pc, played, build, script,
                   ticks, touch_vars>>

MoveByB ==
    /\ ~panicked
    /\ \E y \in Deltas :
           IF overflows_i32(paddle_b.pos.y, y) /\ build = "dev"
           THEN panicked' = TRUE /\ UNCHANGED paddle_b
           ELSE paddle_b' = move_by(paddle_b, y) /\ UNCHANGED panicked
    /\ UNCHANGED <<game, ball, paddle_a, pressed, pc, played, build, script,
                   ticks, touch_vars>>

NextPaddle == MoveByA \/ MoveByB

SpecPaddle == InitPaddle /\ [][NextPaddle]_vars

----------------------------------------------------------------------------
(* Circle::touches on its own, over a grid of circles around a rect *)

\* raw distances of a circle's centre beyond a rect edge (negative: inside)
TouchOffsets ==
    {-1280, 0, 1, 512, 513, 1448, 1449, 2047, 2048, 2049, 2064, 2080}

\* the right paddle's collision rect with the paddle at y = 50
TouchRect == Rect_new(vec2(num(220), num(54)), vec2(num(10), num(40)))

TouchRadii == {num(2), num(8)}

\* centre coordinates along one axis of a rect spanning lo .. hi
TouchCoords(lo, hi) ==
    {hi + o : o \in TouchOffsets} \cup {lo - o : o \in TouchOffsets}

TouchCircles ==
    {Circle_new(vec2(cx - r, cy - r), r) :
        cx \in TouchCoords(top_left(TouchRect).x, bottom_right(TouchRect).x),
        cy \in TouchCoords(top_left(TouchRect).y, bottom_right(TouchRect).y),
        r \in TouchRadii}

InitTouch ==
    /\ Started /\ script = <<>>
    /\ t_circle \in TouchCircles
    /\ t_rect = TouchRect
    /\ t_result = <<>>

\* `circle.touches(rect)`
CallTouches ==
    /\ t_result = <<>>
    /\ t_result' = <<touches(t_circle, t_rect)>>
    /\ UNCHANGED <<game, ball, paddle_a, paddle_b, pressed, pc, played,
                   build, panicked, script, ticks, t_circle, t_rect>>

NextTouch == CallTouches

SpecTouch == InitTouch /\ [][NextTouch]_vars

----------------------------------------------------------------------------
(* The two Paddle::update calls on their own, over every button state *)

\* rows a paddle can stand in when an iteration begins: the top, the start
\* row, and the bottom of its range
PaddleRows == {num(0), num(8), PaddleMaxY}

InitUpdate ==
    /\ game = "Playing"
    /\ ball = new_ball
    /\ \E y \in PaddleRows : paddle_a = [new_paddle_a EXCEPT !.pos.y = y]
    /\ \E y \in PaddleRows : paddle_b = [new_paddle_b EXCEPT !.pos.y = y]
    /\ pressed = {}
    /\ pc = "poll"
    /\ played = <<>>
    /\ build \in Builds
    /\ panicked = FALSE
    /\ ticks = 0
    /\ script = <<>>
    /\ NoTouchCall

\* `controller.update();` sampling any combination of the buttons
SampleButtons ==
    /\ pc = "poll"
    /\ ticks < MaxUpdates
    /\ pressed' \in SUBSET Buttons
    /\ ticks' = ticks + 1
    /\ pc' = "paddles"
    /\ UNCHANGED <<game, ball, paddle_a, paddle_b, played, build, panicked,
                   script, touch_vars>>

\* the rest of an iteration in which no health is 0
KeepPlaying ==
    /\ pc = "frame"
    /\ ~game_over(paddle_a, paddle_b)
    /\ pc' = "poll"
    /\ UNCHANGED <<game, ball, paddle_a, paddle_b, pressed, played, build,
                   panicked, script, ticks, touch_vars>>

NextUpdate == SampleButtons \/ PaddleStep \/ KeepPlaying

SpecUpdate == InitUpdate /\ [][NextUpdate]_vars

----------------------------------------------------------------------------
(* Ball::update on its own, called with any healths *)

\* balls next to the left edge, in mid field and next to the right edge,
\* flying either way
EdgeBalls ==
    {Ball_new(vec2(x, y), vec2(vx, vy)) :
        x \in {num(1), num(2), num(3), num(50), num(221), num(222), num(223)},
        y \in {num(50), num(100)},
        vx \in {num(-2), num(2)},
        vy \in {-Half, Half}}

\* the healths a u16 field can be handed over with, 0 included
Healths == 0..3

InitBall ==
    /\ game = "Playing"
    /\ ball \in EdgeBalls
    /\ \E h \in Healths : paddle_a = [new_paddle_a EXCEPT !.health = h]
    /\ \E h \in Healths : paddle_b = [new_paddle_b EXCEPT !.health = h]
    /\ pressed = {}
    /\ pc = "ball"
    /\ played = <<>>
    /\ build \in Builds
    /\ panicked = FALSE
    /\ ticks = 0
    /\ script = <<>>
    /\ NoTouchCall

NextBall == BallStep

SpecBall == InitBall /\ [][NextBall]_vars

----------------------------------------------------------------------------
(* Properties *)

\* Ball::update has just returned in this step
BallUpdated == pc = "ball" /\ pc' = "paddles"

\* the probe of this state's ball is a miss on either side
Miss == left_miss(probe(ball)) \/ right_miss(probe(ball))

\* the probe circle touches the left / right paddle as Ball::update sees it
TouchA == touches(mask(ball), collision_rect(paddle_a))
TouchB == touches(mask(ball), collision_rect(paddle_b))

\* the fixed restart values: pos (50, 50), velocity (2, 0.5)
ResetPos == [x |-> 12800, y |-> 12800]
ResetVelocity == [x |-> 512, y |-> 128]

\* C1 as stated: after an update whose probe is a miss on either side the
\* ball is exactly at the reset values, pos (50, 50), velocity (2, 0.5).
C1_BallAtResetValues ==
    [][BallUpdated /\ Miss
         => ball' = [pos |-> ResetPos, velocity |-> ResetVelocity]]_vars

\* C1 amended: after an update whose probe is a miss on either side the
\* velocity is the reset velocity (2, 0.5) and the position is the reset
\* position advanced once by it, (52, 50.5): `pos += velocity` also runs
\* after a reset, whatever the paddle and wall checks computed before.
C1_ResetThenAdvance ==
    [][BallUpdated /\ Miss
         => ball' = [pos |-> [x |-> 13312, y |-> 12928],
                     velocity |-> ResetVelocity]]_vars

\* a left miss has just been handled: the ball is one step from the reset
\* position and paddle_a has paid for it
C1_Witness ==
    /\ game = "Playing" /\ pc = "paddles"
    /\ ball = [pos |-> [x |-> 13312, y |-> 12928], velocity |-> ResetVelocity]
    /\ paddle_a.health = 2

\* C2: an update changes the healths by exactly this much: a left miss
\* takes 1 from paddle_a only, a right miss takes 1 from paddle_b only, and
\* an update without a miss leaves both healths as they were.
C2_MissChargesOneSide ==
    [][BallUpdated =>
         /\ left_miss(probe(ball))
              => /\ paddle_a'.health = paddle_a.health - 1
                 /\ paddle_b'.health = paddle_b.health
         /\ right_miss(probe(ball))
              => /\ paddle_b'.health = paddle_b.health - 1
                 /\ paddle_a'.health = paddle_a.health
         /\ ~Miss
              => /\ paddle_a'.health = paddle_a.health
                 /\ paddle_b'.health = paddle_b.health]_vars

\* a right miss has just been handled and only paddle_b has paid
C2_Witness ==
    /\ game = "Playing" /\ pc = "paddles"
    /\ ball.pos = [x |-> 13312, y |-> 12928]
    /\ paddle_a.health = 3 /\ paddle_b.health = 2

\* C3: the health check ends a Playing iteration in Over exactly when a
\* paddle's health is 0 after the updates, and otherwise keeps the session
\* as it is; and an update that starts with healths (1, 1) and misses on
\* either side leaves a health of 0, so that iteration ends in Over.
C3_OverIffHealthZero ==
    [][/\ (pc = "frame" /\ pc' = "poll")
          => /\ (game' = "Over")
                  <=> (paddle_a.health = 0 \/ paddle_b.health = 0)
             /\ game' = "Playing"
                  => /\ ball' = ball
                     /\ paddle_a' = paddle_a
                     /\ paddle_b' = paddle_b
       /\ (BallUpdated /\ Miss
             /\ paddle_a.health = 1 /\ paddle_b.health = 1)
          => (paddle_a'.health = 0 \/ paddle_b'.health = 0)]_vars

\* the updates of an iteration that began with healths (1, 1) are done and
\* the left paddle has lost its last health; the check is about to run
C3_Witness ==
    /\ game = "Playing" /\ pc = "frame"
    /\ paddle_a.health = 0 /\ paddle_b.health = 1

\* the values Game::new gives a session
FreshSession ==
    /\ ball = [pos |-> ResetPos, velocity |-> ResetVelocity]
    /\ paddle_a = [pos |-> [x |-> 2048, y |-> 2048], health |-> 3]
    /\ paddle_b = [pos |-> [x |-> 55296, y |-> 2048], health |-> 3]

\* C4: the Over arm ends in Playing exactly when START is pressed in that
\* iteration and otherwise stays Over; the session it enters, like the
\* initial one, has both healths 3, the ball at (50, 50) with velocity
\* (2, 0.5) and both paddles at their start positions.
C4_RestartIffStart ==
    /\ game = "Playing" /\ FreshSession
    /\ [][(pc = "over" /\ pc' = "poll")
            => /\ (game' = "Playing") <=> ("START" \in pressed)
               /\ game' = "Playing" => FreshSession'
               /\ game' = "Over" => game = "Over"]_vars

\* a session entered from Over: fresh although free iterations were played
C4_Witness ==
    /\ game = "Playing" /\ pc = "poll" /\ ticks > 0
    /\ "START" \in pressed
    /\ FreshSession

\* C5: Ball::update never starts with a health of 0, no `health -= 1`
\* underflows (no overflow panic, no wrapped health), in every run from
\* Game::new.
C5_NoUnderflow ==
    /\ ~panicked
    /\ game = "Playing"
         => /\ paddle_a.health \in 0..3 /\ paddle_b.health \in 0..3
            /\ pc = "ball" => paddle_a.health > 0 /\ paddle_b.health > 0

\* a health has reached 0 and the loop has left Playing
C5_Witness == game = "Over" /\ pc = "poll" /\ ticks > 0

\* C6: after any sequence of move_by calls the paddle's y is within
\* 0 .. HEIGHT - 48 (112), its x is the x it was created with, and
\* move_by(0) leaves it as it is.
C6_PaddleClamped ==
    game = "Playing"
      => /\ paddle_a.pos.y >= 0 /\ paddle_a.pos.y <= 28672
         /\ paddle_b.pos.y >= 0 /\ paddle_b.pos.y <= 28672
         /\ paddle_a.pos.x = 2048 /\ paddle_b.pos.x = 55296
         /\ move_by(paddle_a, 0) = paddle_a
         /\ move_by(paddle_b, 0) = paddle_b

\* a paddle has been moved against the lower end of the field and away
\* from its start row
C6_Witness == paddle_a.pos.y = 28672 /\ paddle_b.pos.y = 1792

\* C7 as stated: an update whose probe touches the left paddle returns with
\* velocity.x > 0, and one whose probe touches the right paddle returns
\* with velocity.x < 0, whatever else happens in the update.
C7_TouchSetsDirection ==
    [][BallUpdated =>
         /\ TouchA => ball'.velocity.x > 0
         /\ TouchB => ball'.velocity.x < 0]_vars

\* C7 amended: an update whose probe touches the left paddle returns with
\* velocity.x > 0; one whose probe touches the right paddle returns with
\* velocity.x < 0 unless the probe is also a right miss (x >= WIDTH - 16),
\* in which case the ball is reset and returns with velocity.x = 2.
C7_TouchSetsDirectionUnlessReset ==
    [][BallUpdated =>
         /\ TouchA => ball'.velocity.x > 0
         /\ (TouchB /\ ~right_miss(probe(ball))) => ball'.velocity.x < 0
         /\ (TouchB /\ right_miss(probe(ball))) => ball'.velocity.x = 512]_vars

\* the right paddle has just been touched and the ball sent back
C7_Witness ==
    /\ game = "Playing" /\ pc = "paddles"
    /\ played = <<"BALL_PADDLE_HIT">>
    /\ ball.velocity.x < 0

\* the exact distance, along one axis, from c to the span lo .. hi
AxisGap(c, lo, hi) == Max(Max(lo - c, c - hi), 0)

\* the exact squared distance (in raw units squared) from the circle's
\* centre, pos + (radius, radius), to the nearest point of the rect
ExactDistSq(c, rect) ==
    LET gx == AxisGap(c.pos.x + c.radius, rect.position.x,
                      rect.position.x + rect.size.x)
        gy == AxisGap(c.pos.y + c.radius, rect.position.y,
                      rect.position.y + rect.size.y)
    IN  (gx * gx) + (gy * gy)

\* C8 as stated: touches is true exactly when the Euclidean distance from
\* the centre to the rect is at most the radius.
C8_TouchesIffWithinRadius ==
    t_result # <<>>
      => (t_result[1]
            <=> ExactDistSq(t_circle, t_rect)
                  <= t_circle.radius * t_circle.radius)

\* C8 amended: touches is true whenever the Euclidean distance from the
\* centre to the rect is at most the radius, and false whenever it is at
\* least the radius plus 1/8; in between the fixed-point rounding (squares
\* rounded down to 1/256, the root to 1/16) decides.
C8_TouchesUpToRounding ==
    t_result # <<>>
      => /\ ExactDistSq(t_circle, t_rect) <= t_circle.radius * t_circle.radius
              => t_result[1]
         /\ ExactDistSq(t_circle, t_rect)
              >= (t_circle.radius + 32) * (t_circle.radius + 32)
              => ~t_result[1]

\* touches has answered true for a centre farther away than the radius
C8_Witness ==
    /\ t_result = <<TRUE>>
    /\ ExactDistSq(t_circle, t_rect) > t_circle.radius * t_circle.radius

\* a paddle hit was played by the update
PaddleHit(sounds) == \E i \in DOMAIN sounds : sounds[i] = "BALL_PADDLE_HIT"

\* C9 as stated: Ball::update runs after both Paddle::update calls of the
\* iteration, so it hits a paddle exactly when the probe touches a paddle
\* at the position this iteration's input has moved it to.
C9_BallSeesMovedPaddles ==
    [][BallUpdated =>
         (PaddleHit(played')
            <=> \/ touches(mask(ball),
                           collision_rect(Paddle_P1_update(paddle_a, pressed)))
                \/ touches(mask(ball),
                           collision_rect(Paddle_P2_update(paddle_b, pressed))))
      ]_vars

\* C9 amended: within a Playing iteration the steps run in the order input
\* poll, Ball::update, Paddle::update for both paddles, health check; so
\* Ball::update hits a paddle exactly when the probe touches a paddle at
\* the position the previous iteration left it in, and this iteration's
\* input moves the paddles only afterwards.
C9_BallSeesUnmovedPaddles ==
    [][/\ BallUpdated
          => /\ PaddleHit(played') <=> (TouchA \/ TouchB)
             /\ paddle_a'.pos = paddle_a.pos /\ paddle_b'.pos = paddle_b.pos
       /\ (pc = "paddles" /\ pc' = "frame")
          => /\ ball' = ball
             /\ paddle_a' = Paddle_P1_update(paddle_a, pressed)
             /\ paddle_b' = Paddle_P2_update(paddle_b, pressed)]_vars

\* Ball::update is about to run and the order matters: the right paddle is
\* touched where it is, and would not be where this input moves it
C9_Witness ==
    /\ game = "Playing" /\ pc = "ball"
    /\ TouchB
    /\ ~touches(mask(ball),
                collision_rect(Paddle_P2_update(paddle_b, pressed)))

\* C10: an update whose probe touches neither paddle and lies strictly
\* inside 0 < y < HEIGHT - 16, 0 < x < WIDTH - 16 leaves the velocity and
\* both healths unchanged, plays no sound and moves the ball to the probe.
C10_FreeFlight ==
    [][(/\ BallUpdated
        /\ ~TouchA /\ ~TouchB
        /\ probe(ball).y > 0 /\ probe(ball).y < 36864
        /\ probe(ball).x > 0 /\ probe(ball).x < 57344)
         => /\ ball'.velocity = ball.velocity
            /\ ball'.pos = [x |-> ball.pos.x + ball.velocity.x,
                            y |-> ball.pos.y + ball.velocity.y]
            /\ paddle_a'.health = paddle_a.health
            /\ paddle_b'.health = paddle_b.health
            /\ played' = played /\ played = <<>>]_vars

\* the first update of a session: (50, 50) with (2, 0.5) is now (52, 50.5)
C10_Witness ==
    /\ game = "Playing" /\ pc = "paddles"
    /\ ball = [pos |-> [x |-> 13312, y |-> 12928], velocity |-> ResetVelocity]
    /\ paddle_a.health = 3 /\ paddle_b.health = 3
    /\ played = <<>>

\* the step stays inside one session: Playing before and after it
SameSession == game = "Playing" /\ game' = "Playing" /\ pc # "over"

\* C11: a session starts with both healths 3 (the initial one and every one
\* entered from Over); inside a session each health is in 0 .. 3 and never
\* grows, only the Ball::update step changes it (the Paddle::update step,
\* which is move_by, leaves it alone), and no iteration of a session begins
\* once a health is 0: the session is dropped by the health check first.
C11_HealthOnlyFalls ==
    /\ paddle_a.health = 3 /\ paddle_b.health = 3
    /\ [][/\ (pc = "over" /\ game' = "Playing")
             => paddle_a'.health = 3 /\ paddle_b'.health = 3
          /\ SameSession
             => /\ paddle_a'.health \in 0..3 /\ paddle_b'.health \in 0..3
                /\ paddle_a'.health <= paddle_a.health
                /\ paddle_b'.health <= paddle_b.health
                /\ ~BallUpdated
                     => /\ paddle_a'.health = paddle_a.health
                        /\ paddle_b'.health = paddle_b.health
          /\ (game = "Playing" /\ (paddle_a.health = 0 \/ paddle_b.health = 0))
             => /\ pc \in {"paddles", "frame"}
                /\ pc = "frame" => game' = "Over"]_vars

\* both paddles have lost health in this session and have since been moved
\* by Paddle::update; the health check is about to keep the session
C11_Witness ==
    /\ game = "Playing" /\ pc = "frame"
    /\ paddle_a.health = 1 /\ paddle_b.health = 1
    /\ ticks > 0

\* this step is one Ball::update that takes a health from both paddles
BothDecremented ==
    /\ BallUpdated
    /\ paddle_a'.health # paddle_a.health
    /\ paddle_b'.health # paddle_b.health

\* the run has used up the free iterations this model follows
FreePlayEnded ==
    game = "Playing" /\ pc = "poll" /\ script = <<>> /\ ticks = MaxTicks

\* C12 as stated: a run of the loop, unless it is one this model stops
\* following, comes to an iteration in which both sides miss, one
\* Ball::update having taken the last health of both paddles: both healths
\* are 0 at once when the health check runs.
C12_BothMissInOneUpdate ==
    <>(\/ /\ game = "Playing" /\ pc = "frame"
          /\ paddle_a.health = 0 /\ paddle_b.health = 0
       \/ FreePlayEnded)

\* C12 amended: the two sides never miss in the same iteration: no probe is
\* both a left miss (x <= 0) and a right miss (x >= WIDTH - 16), so one
\* Ball::update decrements at most one health, at most one health reaches 0
\* in an iteration, and Over is entered with exactly one health at 0.
C12_OneMissPerUpdate ==
    [][/\ game = "Playing"
             => ~(left_miss(probe(ball)) /\ right_miss(probe(ball)))
       /\ ~BothDecremented
       /\ (pc = "frame" /\ game' = "Over")
             => (paddle_a.health = 0) # (paddle_b.health = 0)]_vars

\* the right paddle has lost its last health while the left one keeps its
\* own; the health check is about to end the session
C12_Witness ==
    /\ game = "Playing" /\ pc = "frame"
    /\ paddle_a.health = 1 /\ paddle_b.health = 0

\* the probe position of this state's ball, old pos + old velocity
ProbePos ==
    [x |-> ball.pos.x + ball.velocity.x, y |-> ball.pos.y + ball.velocity.y]

\* the probe is no miss: this update does not reset the ball
NoReset == ProbePos.x > 0 /\ ProbePos.x < 57344

\* the probe is at or beyond the top or the bottom wall (HEIGHT - 16 = 144)
AtWall == ProbePos.y <= 0 \/ ProbePos.y >= 36864

\* the collision rect of a paddle: pos inset by (4, 4), size (10, 40)
InsetRect(p) ==
    [position |-> [x |-> p.pos.x + 1024, y |-> p.pos.y + 1024],
     size |-> [x |-> 2560, y |-> 10240]]

\* the probe circle, radius 8 from the probe position, touches the paddle
ProbeTouches(p) ==
    touches([pos |-> ProbePos, radius |-> 2048], InsetRect(p))

\* an integer division by 32 that rounds towards zero
TruncDiv32(n) == IF n >= 0 THEN n \div 32 ELSE -((-n) \div 32)

\* (probe circle centre y - collision rect centre y) / 32
Steer(p) == TruncDiv32((ProbePos.y + 2048) - (p.pos.y + 1024 + 5120))

\* velocity.y after the paddle checks of this state's update
SteeredVy ==
    (ball.velocity.y + (IF ProbeTouches(paddle_a) THEN Steer(paddle_a) ELSE 0))
      - (IF ProbeTouches(paddle_b) THEN Steer(paddle_b) ELSE 0)

\* the sounds of one kind among those handed to the mixer
Sounds(sounds, kind) == {i \in DOMAIN sounds : sounds[i] = kind}

\* C13: in an update without a reset the wall check inverts velocity.y (and
\* plays the wall hit) exactly when the probe has y <= 0 or y >= HEIGHT - 16;
\* it does so whether or not a paddle was touched, and after the paddle
\* checks: the velocity.y that returns is the steered one, inverted at a wall.
C13_WallInvertsSteered ==
    [][(BallUpdated /\ NoReset)
         => /\ Sounds(played', "WALL_HIT") # {} <=> AtWall
            /\ AtWall => ball'.velocity.y = -SteeredVy
            /\ ~AtWall => ball'.velocity.y = SteeredVy]_vars

\* a paddle bounce and a wall inversion have taken effect in one update
C13_Witness ==
    /\ game = "Playing" /\ pc = "paddles"
    /\ played = <<"BALL_PADDLE_HIT", "WALL_HIT">>
    /\ ball.velocity.y # 0

\* C14: in an update without a reset the collisions are tested at the probe
\* old pos + old velocity (paddle hit and wall hit are played exactly for
\* what the probe touches), the position that returns is old pos + new
\* velocity, and it is the probe only if the velocity returns unchanged.
C14_ProbeThenMove ==
    [][(BallUpdated /\ NoReset)
         => /\ Sounds(played', "BALL_PADDLE_HIT") # {}
                 <=> (ProbeTouches(paddle_a) \/ ProbeTouches(paddle_b))
            /\ Sounds(played', "WALL_HIT") # {} <=> AtWall
            /\ ball'.pos = [x |-> ball.pos.x + ball'.velocity.x,
                            y |-> ball.pos.y + ball'.velocity.y]
            /\ ball'.pos = ProbePos => ball'.velocity = ball.velocity]_vars

\* a wall was hit at the probe and the ball has moved away from it with the
\* inverted velocity: it stands where old pos + new velocity is, inside
C14_Witness ==
    /\ game = "Playing" /\ pc = "paddles"
    /\ played = <<"WALL_HIT">>
    /\ ball.velocity.y < 0
    /\ ball.pos.y < 36864

\* C15: an update whose probe circle touches the left collision rect sets
\* velocity.x to |velocity.x| and adds (circle centre y - rect centre y) / 32
\* to velocity.y; one that touches the right rect sets velocity.x to
\* -|velocity.x| and subtracts its (circle centre y - rect centre y) / 32;
\* each touch plays one paddle hit; the rect is pos + (4, 4), size (10, 40).
\* (The velocity is compared where no reset overwrites it, velocity.y up to
\* the wall inversion.)
C15_PaddleBounce ==
    [][BallUpdated
         => /\ collision_rect(paddle_a) = InsetRect(paddle_a)
            /\ collision_rect(paddle_b) = InsetRect(paddle_b)
            /\ Cardinality(Sounds(played', "BALL_PADDLE_HIT"))
                 = (IF ProbeTouches(paddle_a) THEN 1 ELSE 0)
                     + (IF ProbeTouches(paddle_b) THEN 1 ELSE 0)
            /\ NoReset
                 => /\ ball'.velocity.x
                         = IF ProbeTouches(paddle_b) THEN -Abs(ball.velocity.x)
                           ELSE IF ProbeTouches(paddle_a)
                                THEN Abs(ball.velocity.x)
                           ELSE ball.velocity.x
                    /\ ball'.velocity.y
                         = IF AtWall THEN -SteeredVy ELSE SteeredVy]_vars

\* the left paddle has just been touched off its centre: the ball goes
\* right and no longer has the vertical speed of a reset
C15_Witness ==
    /\ game = "Playing" /\ pc = "paddles"
    /\ played = <<"BALL_PADDLE_HIT">>
    /\ ball.velocity.x > 0
    /\ ball.velocity.y # 128

\* the step a paddle is asked to take: -2 for up alone, 2 for down alone
Delta(up, down) == IF up = down THEN 0 ELSE IF up THEN -512 ELSE 512

\* a row kept inside 0 .. HEIGHT - 48
ClampRow(y) == IF y < 0 THEN 0 ELSE IF y > 28672 THEN 28672 ELSE y

\* C16: Paddle::update moves the paddle (within its range) by -2 when only
\* its up button is pressed, by 2 when only its down button is pressed and
\* by 0 when both or neither are; the left paddle reads UP / DOWN, the
\* right one A / B, and nothing else of either paddle changes.
C16_UpdateDelta ==
    [][(pc = "paddles" /\ pc' = "frame")
         => /\ paddle_a'
                 = [paddle_a EXCEPT !.pos.y =
                      ClampRow(@ + Delta("UP" \in pressed, "DOWN" \in pressed))]
            /\ paddle_b'
                 = [paddle_b EXCEPT !.pos.y =
                      ClampRow(@ + Delta("A" \in pressed, "B" \in pressed))]
      ]_vars

\* with A, B and DOWN held the left paddle has gone down from its start row
\* and the right one has stayed in it
C16_Witness ==
    /\ pc = "frame" /\ pressed = {"A", "B", "DOWN"}
    /\ paddle_a.pos.y = 2560 /\ paddle_b.pos.y = 2048

\* C17 as stated: called with a health of 0 and a probe that is a miss on
\* that side, Ball::update returns with the health still 0: no panic, no
\* wrap to 65535.
C17_SaturatingDecrement ==
    [][/\ (pc = "ball" /\ paddle_a.health = 0 /\ ProbePos.x <= 0)
          => ~panicked' /\ paddle_a'.health = 0
       /\ (pc = "ball" /\ paddle_b.health = 0 /\ ProbePos.x >= 57344)
          => ~panicked' /\ paddle_b'.health = 0]_vars

\* C18: in every state of the loop the ball's horizontal speed is 2:
\* velocity.x is 2 or -2, never 0; an update returns it as |velocity.x|,
\* as -|velocity.x| or as the reset value 2, so every update moves the ball
\* two pixels towards one side.
C18_HorizontalSpeed ==
    /\ [](game = "Playing" => ball.velocity.x \in {-512, 512})
    /\ [][BallUpdated
            => /\ ball'.velocity.x
                    \in {Abs(ball.velocity.x), -Abs(ball.velocity.x), 512}
               /\ Abs(ball'.pos.x - ball.pos.x) = 512
                    \/ ball'.pos.x = 13312]_vars

\* after a miss and its reset the ball has been turned by the right paddle
\* and flies left at the same speed
C18_Witness ==
    /\ game = "Playing" /\ pc = "frame"
    /\ ball.velocity.x = -512
    /\ paddle_a.health + paddle_b.health < 6

\* C19 as stated: whenever an iteration of a session has ended, the ball is
\* vertically inside the play field, 0 <= pos.y <= HEIGHT - 16, whatever the
\* input was.
C19_BallStaysInField ==
    game = "Playing" => ball.pos.y >= 0 /\ ball.pos.y <= 36864

====
